---------------------------- MODULE Spec2Model ----------------------------
(***************************************************************************)
(* Model of the NVD ETL connector: extract.py (the Fetcher, which stores   *)
(* the fetched JSON payload in the collection nvd_raw) and transform.py    *)
(* (the Transformer, which projects every entry of one raw document into a *)
(* flat record and stores the records in nvd_vulnerabilities).             *)
(***************************************************************************)
EXTENDS Integers, Sequences, FiniteSets, TLC

(***************************************************************************)
(* Bounds of the model.                                                    *)
(***************************************************************************)
MaxRuns == 3
MaxVulns == 2
MaxDescs == 2
MaxMetrics == 2

(***************************************************************************)
(* Python / JSON values.  A value is a record with one field, named after  *)
(* its Python type; a dict is a function from its keys (strings) to        *)
(* values, so a key that is absent is absent from the DOMAIN.              *)
(***************************************************************************)
PyNone == [none |-> TRUE]
PyStr(s) == [str |-> s]
PyInt(n) == [int |-> n]
PyList(s) == [list |-> s]
PyDict(f) == [dict |-> f]
EmptyDict == PyDict(<<>>)
EmptyList == PyList(<<>>)

\* The outcome of an expression that raised an exception.
Raised == [raise |-> TRUE]

IsDict(x) == "dict" \in DOMAIN x
IsList(x) == "list" \in DOMAIN x
IsStrEq(x, s) == "str" \in DOMAIN x /\ x.str = s

\* bool(x)
Truthy(x) ==
    CASE "none" \in DOMAIN x -> FALSE
      [] "str" \in DOMAIN x -> x.str # ""
      [] "int" \in DOMAIN x -> x.int # 0
      [] "list" \in DOMAIN x -> Len(x.list) > 0
      [] "dict" \in DOMAIN x -> DOMAIN x.dict # {}

\* d.get(k, default) on a dict d
Get(d, k, default) == IF k \in DOMAIN d.dict THEN d.dict[k] ELSE default

\* {**a, **b}: the keys of both, b's value where both have the key
Merge(a, b) ==
    [k \in DOMAIN a \cup DOMAIN b |-> IF k \in DOMAIN b THEN b[k] ELSE a[k]]

(***************************************************************************)
(* transform.py, the projection of one entry (the body of the loop).       *)
(***************************************************************************)

\* next((d.get("value") for d in lst if d.get("lang") == "en"), ""):
\* the generator is lazy, so elements after the first English one are never
\* touched; a non-dict element before it raises AttributeError, and a value
\* that is not iterable raises TypeError.  (Inputs carry lists, None or
\* numbers at list positions.)
\* A faulty variant of FirstEnFrom: the first entry, whatever its language.
FirstOfAnyLanguage(s, i) ==
    IF i > Len(s) THEN PyStr("")
    ELSE IF ~IsDict(s[i]) THEN Raised
    ELSE Get(s[i], "value", PyNone)

RECURSIVE FirstEnFrom(_, _)
FirstEnFrom(s, i) ==
    IF i > Len(s) THEN PyStr("")
    ELSE IF ~IsDict(s[i]) THEN Raised
    ELSE IF IsStrEq(Get(s[i], "lang", PyNone), "en") THEN Get(s[i], "value", PyNone)
    ELSE FirstEnFrom(s, i + 1)

FirstEn(lst) == IF IsList(lst) THEN FirstEnFrom(lst.list, 1) ELSE Raised

ScoringKeys ==
    {"type", "version", "vectorString", "baseScore", "accessVector",
     "accessComplexity", "authentication", "confidentialityImpact",
     "integrityImpact", "availabilityImpact", "baseSeverity",
     "exploitabilityScore", "impactScore", "acInsufInfo", "obtainAllPrivilege",
     "obtainUserPrivilege", "obtainOtherPrivilege", "userInteractionRequired"}

\* The scoring keys read from cvssData; the others are read from the metric.
CvssDataKeys ==
    {"version", "vectorString", "baseScore", "accessVector", "accessComplexity",
     "authentication", "confidentialityImpact", "integrityImpact",
     "availabilityImpact"}

\* The index of the cvssMetricV2 element the scoring fields are read from
\* (metrics_data[0]; sequences are 1-based here).  MetricIndexLast is a
\* faulty variant that reads the last element.
MetricIndexLast(metrics_data) == Len(metrics_data.list)
MetricIndex(metrics_data) == 1

\* metrics_transformed: {} when cvssMetricV2 is falsy, else the 18 keys
\* flattened from element 0 and its cvssData.  Raised on an error.
MetricsTransformed(cve) ==
    LET metrics == Get(cve, "metrics", EmptyDict) IN
    IF ~IsDict(metrics) THEN Raised
    ELSE LET metrics_data == Get(metrics, "cvssMetricV2", EmptyList) IN
         IF ~Truthy(metrics_data) THEN [ok |-> <<>>]
         ELSE IF ~IsList(metrics_data) THEN Raised
         ELSE LET m == metrics_data.list[MetricIndex(metrics_data)] IN
              IF ~IsDict(m) THEN Raised
              ELSE LET cvss == Get(m, "cvssData", EmptyDict) IN
                   IF ~IsDict(cvss) THEN Raised
                   ELSE [ok |-> [k \in ScoringKeys |->
                                   IF k \in CvssDataKeys THEN Get(cvss, k, PyNone)
                                   ELSE Get(m, k, PyNone)]]

\* weaknesses_list: one {type, description} per weakness, in order.
RECURSIVE WeaknessesFrom(_, _)
WeaknessesFrom(s, i) ==
    IF i > Len(s) THEN [ok |-> <<>>]
    ELSE IF ~IsDict(s[i]) THEN Raised
    ELSE LET desc_en == FirstEn(Get(s[i], "description", EmptyList))
             rest == WeaknessesFrom(s, i + 1)
         IN  IF desc_en = Raised \/ rest = Raised THEN Raised
             ELSE [ok |-> <<[type |-> Get(s[i], "type", PyNone),
                              description |-> desc_en]>> \o rest.ok]

WeaknessesList(cve) ==
    LET ws == Get(cve, "weaknesses", EmptyList) IN
    IF IsList(ws) THEN WeaknessesFrom(ws.list, 1) ELSE Raised

\* references: list({ref.get("url") for ref in ... if ref.get("url")}); the
\* order of a list made from a set is unspecified, so the result is a set.
\* A truthy url that is a list or a dict is unhashable (TypeError).
References(cve) ==
    LET refs == Get(cve, "references", EmptyList) IN
    IF ~IsList(refs) THEN Raised
    ELSE IF \E i \in 1..Len(refs.list) : ~IsDict(refs.list[i]) THEN Raised
    ELSE LET urls == {Get(refs.list[i], "url", PyNone) : i \in 1..Len(refs.list)} IN
         IF \E u \in urls : Truthy(u) /\ (IsList(u) \/ IsDict(u)) THEN Raised
         ELSE [ok |-> {u \in urls : Truthy(u)}]

\* What the except clause of the loop body leaves for a failed entry: nothing
\* is appended.  PartialRecord is a faulty variant that keeps a stub.
NoRecord == [ok |-> FALSE]
PartialRecord == [ok |-> TRUE, rec |-> [id |-> PyNone]]
OnRecordError == NoRecord

\* The body of the try block for one vuln_item, stamped with the time now:
\* [ok |-> TRUE, rec |-> transformed_vuln] or the outcome of the except clause.
TransformRecord(vuln_item, now) ==
    IF ~IsDict(vuln_item) \/ "cve" \notin DOMAIN vuln_item.dict THEN OnRecordError
    ELSE LET cve == vuln_item.dict["cve"] IN
    IF ~IsDict(cve) THEN OnRecordError
    ELSE LET description == FirstEn(Get(cve, "descriptions", EmptyList))
             metrics_transformed == MetricsTransformed(cve)
             weaknesses_list == WeaknessesList(cve)
             references == References(cve)
         IN
    IF \/ description = Raised
       \/ metrics_transformed = Raised
       \/ weaknesses_list = Raised
       \/ references = Raised
    THEN OnRecordError
    ELSE [ok |-> TRUE,
          rec |-> Merge(Merge([id |-> Get(cve, "id", PyNone),
                               sourceIdentifier |-> Get(cve, "sourceIdentifier", PyNone),
                               published |-> Get(cve, "published", PyNone),
                               lastModified |-> Get(cve, "lastModified", PyNone),
                               vulnStatus |-> Get(cve, "vulnStatus", PyNone),
                               description |-> description],
                              metrics_transformed.ok),
                        [weaknesses |-> weaknesses_list.ok,
                         references |-> references.ok,
                         collected_at |-> now])]

(***************************************************************************)
(* Input data.  Absent marks a key left out of a dict.                     *)
(***************************************************************************)
Absent == [absent |-> TRUE]
Opt(k, v) == IF v = Absent THEN <<>> ELSE (k :> v)

\* All sequences over S of length at most n.
RECURSIVE SeqsUpTo(_, _)
SeqsUpTo(S, n) ==
    IF n = 0 THEN {<<>>}
    ELSE LET shorter == SeqsUpTo(S, n - 1) IN
         shorter \cup {Append(s, e) : s \in {q \in shorter : Len(q) = n - 1}, e \in S}

Desc(lang, value) == PyDict([lang |-> PyStr(lang), value |-> PyStr(value)])

DescAlphabet ==
    {Desc("en", "a"), Desc("en", "b"), Desc("fr", "c"),
     PyDict([lang |-> PyStr("en")]), PyInt(0)}

DescriptionsChoices ==
    {Absent, PyNone} \cup {PyList(s) : s \in SeqsUpTo(DescAlphabet, MaxDescs)}

Metric(tag) ==
    PyDict([type |-> PyStr("Primary"), baseSeverity |-> PyStr(tag),
            exploitabilityScore |-> PyStr(tag), impactScore |-> PyStr(tag),
            acInsufInfo |-> PyStr(tag), obtainAllPrivilege |-> PyStr(tag),
            obtainUserPrivilege |-> PyStr(tag), obtainOtherPrivilege |-> PyStr(tag),
            userInteractionRequired |-> PyStr(tag),
            cvssData |-> PyDict([version |-> PyStr("2.0"), vectorString |-> PyStr(tag),
                                 baseScore |-> PyStr(tag), accessVector |-> PyStr(tag),
                                 accessComplexity |-> PyStr(tag),
                                 authentication |-> PyStr(tag),
                                 confidentialityImpact |-> PyStr(tag),
                                 integrityImpact |-> PyStr(tag),
                                 availabilityImpact |-> PyStr(tag)])])

MetricAlphabet ==
    {Metric("HIGH"), Metric("LOW"),
     PyDict([type |-> PyStr("Secondary"), baseSeverity |-> PyStr("MEDIUM")])}

MetricsChoices ==
    {Absent, EmptyDict, PyNone, PyDict([cvssMetricV3 |-> PyList(<<Metric("HIGH")>>)])}
    \cup {PyDict([cvssMetricV2 |-> PyList(s)]) : s \in SeqsUpTo(MetricAlphabet, MaxMetrics)}

Weakness(type, descs) == PyDict([type |-> PyStr(type), description |-> PyList(descs)])

WeaknessesChoices ==
    {Absent,
     PyList(<<Weakness("CWE-79", <<Desc("fr", "c"), Desc("en", "XSS"), Desc("en", "b")>>)>>),
     PyList(<<Weakness("CWE-20", <<Desc("fr", "c")>>), PyDict([source |-> PyStr("nvd")])>>),
     PyList(<<Weakness("CWE-79", <<Desc("en", "XSS")>>), PyInt(0)>>),
     PyList(<<PyDict([type |-> PyStr("CWE-20"), description |-> PyNone])>>)}

Ref(url) == PyDict([url |-> PyStr(url)])

ReferencesChoices ==
    {Absent, PyNone,
     PyList(<<Ref("http://a"), Ref("http://a"), EmptyDict>>),
     PyList(<<Ref("http://a"), Ref("http://b"), Ref("")>>),
     PyList(<<Ref("http://a"), PyInt(0)>>)}

\* A source entry {"cve": {...}} with the given optional parts.
Entry(id, d, m, w, r) ==
    PyDict([cve |-> PyDict(("id" :> PyStr(id)) @@ ("vulnStatus" :> PyStr("Analyzed"))
                           @@ Opt("descriptions", d) @@ Opt("metrics", m)
                           @@ Opt("weaknesses", w) @@ Opt("references", r))])

V2(s) == PyDict([cvssMetricV2 |-> PyList(s)])

Good1 == Entry("CVE-1", PyList(<<Desc("en", "a")>>), Absent, Absent, Absent)
Good2 ==
    Entry("CVE-2", PyList(<<Desc("fr", "c"), Desc("en", "b")>>),
          V2(<<Metric("HIGH"), Metric("LOW")>>),
          PyList(<<Weakness("CWE-79", <<Desc("en", "XSS")>>)>>),
          PyList(<<Ref("http://a"), Ref("http://a"), EmptyDict>>))
NoCve == PyDict([id |-> PyStr("CVE-3")])
CveNotDict == PyDict([cve |-> PyStr("CVE-4")])
NestedNotIterable == Entry("CVE-5", PyInt(1), Absent, Absent, Absent)
NotDict == PyStr("CVE-6")

\* The entries a single projection is exercised on: descriptions and metrics
\* vary together, weaknesses and references vary together.
RichEntries ==
    {Entry("CVE-1", d, m, Absent, Absent) : d \in DescriptionsChoices, m \in MetricsChoices}
    \cup {Entry("CVE-2", PyList(<<Desc("en", "a")>>), V2(<<Metric("LOW")>>), w, r) :
            w \in WeaknessesChoices, r \in ReferencesChoices}

\* The entries the loop is exercised on, well-formed and malformed.
LoopEntries == {Good1, Good2, NoCve, CveNotDict, NestedNotIterable, NotDict}

RawDoc(entries) == PyDict([resultsPerPage |-> PyInt(Len(entries)), vulnerabilities |-> PyList(entries)])

\* The JSON bodies the API answers with in the pipeline: one object with a
\* page of entries, objects without a usable "vulnerabilities" field, a list
\* of objects, and bodies that are neither (a string, a number); {} is falsy.
Payloads ==
    {RawDoc(<<Good1, NoCve, Good2>>), RawDoc(<<Good2>>), RawDoc(<<>>),
     PyDict([message |-> PyStr("no data")]),
     PyDict([vulnerabilities |-> PyNone]),
     PyList(<<RawDoc(<<Good1>>), RawDoc(<<Good2>>)>>),
     PyStr("rate limited"), PyInt(7), EmptyDict}

\* os.getenv: "" stands for an unset (None) or empty variable, both falsy.
EnvChoices == {"", "set"}

Procs == {1, 2}

(***************************************************************************)
(* State.  The two collections are sequences of documents in natural      *)
(* (insertion) order.  fetcher[p] and transformer[p] hold the variables of *)
(* the run of extract.py / transform.py in process p, with the history     *)
(* fields ops (the external operations the run has performed), before (the *)
(* target collection when the run started), now (the number of the run,    *)
(* which stands for the time it stamps as collected_at) and overlaps (the  *)
(* runs in progress when it started); the Transformer also has cleared,    *)
(* inserted, rawAtLoad and repeat.  Every call on a collection is one      *)
(* step, and the _id that an insert adds to a document is left out.        *)
(***************************************************************************)
VARIABLES nvd_raw, nvd_vulnerabilities, fetcher, transformer, clock

vars == <<nvd_raw, nvd_vulnerabilities, fetcher, transformer, clock>>

IdleFetcher ==
    [pc |-> "idle", MONGO_URL |-> "", MONGO_DB |-> "", data |-> PyNone,
     ops |-> {}, before |-> <<>>, now |-> 0, overlaps |-> {}]

IdleTransformer ==
    [pc |-> "idle", MONGO_URL |-> "", MONGO_DB |-> "", raw_data |-> PyNone,
     idx |-> 0, vulnerabilities |-> <<>>, now |-> 0, ops |-> {}, before |-> <<>>,
     cleared |-> FALSE, inserted |-> <<>>, rawAtLoad |-> <<>>, repeat |-> FALSE,
     overlaps |-> {}]

Init ==
    /\ nvd_raw = <<>>
    /\ nvd_vulnerabilities = <<>>
    /\ fetcher = [p \in Procs |-> IdleFetcher]
    /\ transformer = [p \in Procs |-> IdleTransformer]
    /\ clock = 0

AtRest(run) == run.pc \in {"idle", "done", "error_logged", "aborted"}

\* The runs in progress, by their start stamps.
Active == {fetcher[q].now : q \in {r \in Procs : ~AtRest(fetcher[r])}}
          \cup {transformer[q].now : q \in {r \in Procs : ~AtRest(transformer[r])}}

\* What is left of a collection by a delete_many({}) that raised: documents
\* go in natural order, so any tail may survive (all of it, or nothing).
Remainders(coll) == {SubSeq(coll, k, Len(coll)) : k \in 1..(Len(coll) + 1)}

\* What an insert_many(docs) that raised has inserted: inserts are ordered,
\* so a proper prefix of docs.
ProperPrefixes(docs) == {SubSeq(docs, 1, k) : k \in 0..(Len(docs) - 1)}

(***************************************************************************)
(* extract.py                                                              *)
(***************************************************************************)

\* Module level: load_dotenv and the two os.getenv calls.  `overlap` says
\* whether the scheduler lets a run start while another run of the same
\* stage is in progress.
StartFetcher(p, overlap) ==
    /\ AtRest(fetcher[p])
    /\ clock < MaxRuns
    /\ \A q \in Procs : AtRest(transformer[q])
    /\ overlap \/ \A q \in Procs : AtRest(fetcher[q])
    /\ \E url \in EnvChoices, db \in EnvChoices :
         fetcher' = [fetcher EXCEPT ![p] =
                       [pc |-> "main", MONGO_URL |-> url, MONGO_DB |-> db,
                        data |-> PyNone, ops |-> {}, before |-> nvd_raw,
                        now |-> clock + 1, overlaps |-> Active]]
    /\ clock' = clock + 1
    /\ UNCHANGED <<nvd_raw, nvd_vulnerabilities, transformer>>

\* main: data = fetch_cve_data(); if data: save_to_mongo(data) else log.
\* fetch_cve_data returns the decoded body, or None on a RequestException.
FetchCveData(p) ==
    /\ fetcher[p].pc = "main"
    /\ \E body \in Payloads \cup {PyNone} :
         fetcher' = [fetcher EXCEPT ![p].data = body,
                                    ![p].ops = @ \cup {"http_get"},
                                    ![p].pc = IF Truthy(body) THEN "save_to_mongo"
                                              ELSE "error_logged"]
    /\ UNCHANGED <<nvd_raw, nvd_vulnerabilities, transformer, clock>>

\* save_to_mongo: the configuration check, then MongoClient + server_info().
FetcherConnect(p) ==
    /\ fetcher[p].pc = "save_to_mongo"
    /\ IF fetcher[p].MONGO_URL = "" \/ fetcher[p].MONGO_DB = ""
       THEN fetcher' = [fetcher EXCEPT ![p].pc = "error_logged"]
       ELSE \E ok \in BOOLEAN :
              fetcher' = [fetcher EXCEPT ![p].ops = @ \cup {"connect"},
                                         ![p].pc = IF ok THEN "delete_many"
                                                   ELSE "error_logged"]
    /\ UNCHANGED <<nvd_raw, nvd_vulnerabilities, transformer, clock>>

\* collection.delete_many({}); a PyMongoError ends the run in the except clause.
FetcherClear(p) ==
    /\ fetcher[p].pc = "delete_many"
    /\ \/ /\ nvd_raw' = <<>>
          /\ fetcher' = [fetcher EXCEPT ![p].ops = @ \cup {"delete_many"},
                                        ![p].pc = "insert"]
       \/ /\ nvd_raw' \in Remainders(nvd_raw)
          /\ fetcher' = [fetcher EXCEPT ![p].ops = @ \cup {"delete_many"},
                                        ![p].pc = "error_logged"]
    /\ UNCHANGED <<nvd_vulnerabilities, transformer, clock>>

\* The documents insert_one / insert_many is given for a payload.
Docs(data) == IF IsDict(data) THEN <<data>> ELSE IF IsList(data) THEN data.list ELSE <<>>

\* isinstance(data, dict) -> insert_one; isinstance(data, list) -> insert_many;
\* anything else is logged as unsupported.
FetcherInsert(p) ==
    /\ fetcher[p].pc = "insert"
    /\ LET data == fetcher[p].data IN
       IF IsDict(data) \/ IsList(data)
       THEN \/ /\ nvd_raw' = nvd_raw \o Docs(data)
               /\ fetcher' = [fetcher EXCEPT ![p].ops = @ \cup {"insert"},
                                             ![p].pc = "done"]
            \/ /\ nvd_raw' \in {nvd_raw \o d : d \in ProperPrefixes(Docs(data))}
               /\ fetcher' = [fetcher EXCEPT ![p].ops = @ \cup {"insert"},
                                             ![p].pc = "error_logged"]
       ELSE /\ nvd_raw' = nvd_raw
            /\ fetcher' = [fetcher EXCEPT ![p].pc = "error_logged"]
    /\ UNCHANGED <<nvd_vulnerabilities, transformer, clock>>

(***************************************************************************)
(* transform.py                                                            *)
(***************************************************************************)

\* The process starts.  repeat records that this run directly follows a run
\* of this process that reached DONE, with nvd_raw as that run read it.
StartTransformer(p, overlap) ==
    /\ AtRest(transformer[p])
    /\ clock < MaxRuns
    /\ \A q \in Procs : AtRest(fetcher[q])
    /\ overlap \/ \A q \in Procs : AtRest(transformer[q])
    /\ \E url \in EnvChoices, db \in EnvChoices :
         transformer' = [transformer EXCEPT ![p] =
                           [IdleTransformer EXCEPT
                              !.pc = "load_env", !.MONGO_URL = url, !.MONGO_DB = db,
                              !.now = clock + 1, !.before = nvd_vulnerabilities,
                              !.repeat = /\ transformer[p].pc = "done"
                                         /\ transformer[p].rawAtLoad = nvd_raw
                                         /\ transformer[p].overlaps = {}
                                         /\ Active = {},
                              !.overlaps = Active]]
    /\ clock' = clock + 1
    /\ UNCHANGED <<nvd_raw, nvd_vulnerabilities, fetcher>>

\* LOAD ENV: a missing setting raises ValueError, which is logged and re-raised.
LoadEnv(p) ==
    /\ transformer[p].pc = "load_env"
    /\ transformer' = [transformer EXCEPT ![p].pc =
                         IF transformer[p].MONGO_URL = "" \/ transformer[p].MONGO_DB = ""
                         THEN "aborted" ELSE "connect"]
    /\ UNCHANGED <<nvd_raw, nvd_vulnerabilities, fetcher, clock>>

\* MONGO CONNECTION: MongoClient + server_info(); a timeout is re-raised.
TransformerConnect(p) ==
    /\ transformer[p].pc = "connect"
    /\ \E ok \in BOOLEAN :
         transformer' = [transformer EXCEPT ![p].ops = @ \cup {"connect"},
                                            ![p].pc = IF ok THEN "clear" ELSE "aborted"]
    /\ UNCHANGED <<nvd_raw, nvd_vulnerabilities, fetcher, clock>>

\* The collection after the CLEAR OLD DATA step, given whether delete_many
\* returned (ok) and, when it raised, what it left (rest).  ClearedKeepsAll
\* is a faulty variant that deletes nothing.
ClearedKeepsAll(coll, ok, rest) == coll
Cleared(coll, ok, rest) == IF ok THEN <<>> ELSE rest

\* CLEAR OLD DATA: delete_many({}); an exception is logged and the run goes on.
ClearOldData(p) ==
    /\ transformer[p].pc = "clear"
    /\ \E ok \in BOOLEAN, rest \in Remainders(nvd_vulnerabilities) :
         /\ nvd_vulnerabilities' = Cleared(nvd_vulnerabilities, ok, rest)
         /\ transformer' = [transformer EXCEPT ![p].ops = @ \cup {"delete_many"},
                                               ![p].cleared = ok,
                                               ![p].pc = "load_raw"]
    /\ UNCHANGED <<nvd_raw, fetcher, clock>>

\* raw_collection.find_one(): the first document in natural order, or None.
FindOne(coll) == IF coll = <<>> THEN PyNone ELSE Head(coll)

\* len(x) raises TypeError unless x is sized (here: a list).
HasLen(x) == IsList(x)

\* LOAD RAW DATA: find_one, the check for "vulnerabilities", and the log line
\* that takes len() of it; any exception (find_one's too) is re-raised.
LoadRawData(p) ==
    /\ transformer[p].pc = "load_raw"
    /\ \E ok \in BOOLEAN :
         LET raw_data == FindOne(nvd_raw)
             loaded == /\ ok
                       /\ IsDict(raw_data)
                       /\ "vulnerabilities" \in DOMAIN raw_data.dict
                       /\ HasLen(raw_data.dict["vulnerabilities"])
         IN  transformer' = [transformer EXCEPT
                               ![p].ops = @ \cup {"find_one"},
                               ![p].raw_data = IF ok THEN raw_data ELSE PyNone,
                               ![p].rawAtLoad = nvd_raw,
                               ![p].idx = 1,
                               ![p].pc = IF loaded THEN "transform" ELSE "aborted"]
    /\ UNCHANGED <<nvd_raw, nvd_vulnerabilities, fetcher, clock>>

\* The list the loop iterates: raw_data.get("vulnerabilities", []).
Items(run) == Get(run.raw_data, "vulnerabilities", EmptyList).list

\* TRANSFORM DATA: one iteration of the loop, the try/except included.
TransformItem(p) ==
    /\ transformer[p].pc = "transform"
    /\ transformer[p].idx <= Len(Items(transformer[p]))
    /\ LET run == transformer[p]
           result == TransformRecord(Items(run)[run.idx], run.now)
       IN  transformer' = [transformer EXCEPT
                             ![p].vulnerabilities =
                                 IF result.ok THEN Append(@, result.rec) ELSE @,
                             ![p].idx = @ + 1]
    /\ UNCHANGED <<nvd_raw, nvd_vulnerabilities, fetcher, clock>>

\* STORE TRANSFORMED DATA, after the loop: insert_many when there is a
\* record, else a warning; an exception is logged and re-raised.
StoreTransformedData(p) ==
    /\ transformer[p].pc = "transform"
    /\ transformer[p].idx > Len(Items(transformer[p]))
    /\ LET vulnerabilities == transformer[p].vulnerabilities IN
       IF vulnerabilities # <<>>
       THEN \/ /\ nvd_vulnerabilities' = nvd_vulnerabilities \o vulnerabilities
               /\ transformer' = [transformer EXCEPT
                                    ![p].ops = @ \cup {"insert_many"},
                                    ![p].inserted = vulnerabilities,
                                    ![p].pc = "done"]
            \/ /\ nvd_vulnerabilities' \in
                    {nvd_vulnerabilities \o d : d \in ProperPrefixes(vulnerabilities)}
               /\ transformer' = [transformer EXCEPT
                                    ![p].ops = @ \cup {"insert_many"},
                                    ![p].inserted = vulnerabilities,
                                    ![p].pc = "aborted"]
       ELSE /\ nvd_vulnerabilities' = nvd_vulnerabilities
            /\ transformer' = [transformer EXCEPT ![p].pc = "done"]
    /\ UNCHANGED <<nvd_raw, fetcher, clock>>

(***************************************************************************)
(* Specifications.                                                         *)
(***************************************************************************)

Step(p) ==
    \/ FetchCveData(p)
    \/ FetcherConnect(p)
    \/ FetcherClear(p)
    \/ FetcherInsert(p)
    \/ LoadEnv(p)
    \/ TransformerConnect(p)
    \/ ClearOldData(p)
    \/ LoadRawData(p)
    \/ TransformItem(p)
    \/ StoreTransformedData(p)

\* Serialized runs, as the external scheduler is assumed to drive them: one
\* process, a run starts when the previous one has ended.
Next ==
    \/ StartFetcher(1, FALSE)
    \/ StartTransformer(1, FALSE)
    \/ Step(1)

Spec == Init /\ [][Next]_vars

\* Runs of the same stage may overlap in two processes.
NextConcurrent ==
    \E p \in Procs :
        \/ StartFetcher(p, TRUE)
        \/ StartTransformer(p, TRUE)
        \/ Step(p)

\* The records a Transformer run stamped `now` makes of a raw document.
RECURSIVE Project(_, _)
Project(entries, now) ==
    IF entries = <<>> THEN <<>>
    ELSE LET result == TransformRecord(Head(entries), now) IN
         (IF result.ok THEN <<result.rec>> ELSE <<>>) \o Project(Tail(entries), now)

\* Two overlapping runs are started on collections as earlier serialized runs
\* left them: nvd_raw empty or holding a stored payload, nvd_vulnerabilities
\* empty or holding the records of an earlier run (stamped 0).  The clock
\* leaves room for exactly two runs.
InitConcurrent ==
    /\ nvd_raw \in {<<>>} \cup {Docs(d) : d \in {b \in Payloads : Truthy(b) /\ (IsDict(b) \/ IsList(b))}}
    /\ nvd_vulnerabilities \in {<<>>, Project(<<Good2>>, 0)}
    /\ fetcher = [p \in Procs |-> IdleFetcher]
    /\ transformer = [p \in Procs |-> IdleTransformer]
    /\ clock = MaxRuns - 2

SpecConcurrent == InitConcurrent /\ [][NextConcurrent]_vars

\* One Transformer run taken from the point where the raw document has been
\* loaded, over every raw document of the bounded input sets.
RawDocs ==
    {RawDoc(<<e>>) : e \in RichEntries}
    \cup {RawDoc(s) : s \in SeqsUpTo(LoopEntries, MaxVulns)}

InitTransform ==
    /\ \E doc \in RawDocs :
         /\ nvd_raw = <<doc>>
         /\ transformer =
              [p \in Procs |->
                 IF p = 1
                 THEN [IdleTransformer EXCEPT
                         !.pc = "transform", !.MONGO_URL = "set", !.MONGO_DB = "set",
                         !.raw_data = doc, !.rawAtLoad = <<doc>>, !.idx = 1, !.now = 1,
                         !.cleared = TRUE,
                         !.ops = {"connect", "delete_many", "find_one"}]
                 ELSE IdleTransformer]
    /\ nvd_vulnerabilities = <<>>
    /\ fetcher = [p \in Procs |-> IdleFetcher]
    /\ clock = 1

NextTransform == TransformItem(1) \/ StoreTransformedData(1)

SpecTransform == InitTransform /\ [][NextTransform]_vars

(***************************************************************************)
(* What the properties below say of one source entry, stated on the entry  *)
(* itself.                                                                 *)
(***************************************************************************)
Min(S) == CHOOSE i \in S : \A j \in S : i <= j

\* The positions of the English entries of a list of descriptions.
EnglishAt(descs) ==
    {i \in 1..Len(descs) : /\ IsDict(descs[i])
                           /\ "lang" \in DOMAIN descs[i].dict
                           /\ descs[i].dict["lang"] = PyStr("en")}

\* A localized list cannot be read: it is no list, or an element that is no
\* dict comes before the first English entry.
Unreadable(lst) ==
    \/ ~IsList(lst)
    \/ \E i \in 1..Len(lst.list) :
         ~IsDict(lst.list[i]) /\ \A j \in EnglishAt(lst.list) : i < j

Field(d, k, default) == IF k \in DOMAIN d.dict THEN d.dict[k] ELSE default

\* The entry is one whose projection raises.
Raises(e) ==
    \/ ~IsDict(e)
    \/ "cve" \notin DOMAIN e.dict
    \/ ~IsDict(e.dict["cve"])
    \/ LET cve == e.dict["cve"]
           metrics == Field(cve, "metrics", EmptyDict)
           ws == Field(cve, "weaknesses", EmptyList)
           refs == Field(cve, "references", EmptyList)
       IN  \/ Unreadable(Field(cve, "descriptions", EmptyList))
           \/ ~IsDict(metrics)
           \/ /\ Truthy(Field(metrics, "cvssMetricV2", EmptyList))
              /\ LET v2 == metrics.dict["cvssMetricV2"] IN
                 \/ ~IsList(v2)
                 \/ ~IsDict(v2.list[1])
                 \/ ~IsDict(Field(v2.list[1], "cvssData", EmptyDict))
           \/ ~IsList(ws)
           \/ \E i \in 1..Len(ws.list) :
                \/ ~IsDict(ws.list[i])
                \/ Unreadable(Field(ws.list[i], "description", EmptyList))
           \/ ~IsList(refs)
           \/ \E i \in 1..Len(refs.list) :
                \/ ~IsDict(refs.list[i])
                \/ IsList(Field(refs.list[i], "url", PyNone))
                \/ IsDict(Field(refs.list[i], "url", PyNone))

\* The description the rule "first English entry, else the empty string"
\* gives for a list of descriptions.
ExpectedDescription(descs) ==
    IF EnglishAt(descs) = {} THEN PyStr("")
    ELSE Field(descs[Min(EnglishAt(descs))], "value", PyNone)

\* The entries of the run's raw document handled so far, and those among
\* them whose projection does not raise, in source order.
Handled(run) == SubSeq(Items(run), 1, run.idx - 1)
Survivors(run) == SelectSeq(Handled(run), LAMBDA e : ~Raises(e))

\* The run has loaded a raw document whose "vulnerabilities" it can iterate.
InLoop(run) ==
    /\ run.pc \in {"transform", "done", "aborted"}
    /\ IsDict(run.raw_data)
    /\ IsList(Get(run.raw_data, "vulnerabilities", EmptyList))

BaseKeys ==
    {"id", "sourceIdentifier", "published", "lastModified", "vulnStatus",
     "description", "weaknesses", "references", "collected_at"}

(***************************************************************************)
(* Properties of the projection and of the loop, stated for SpecTransform. *)
(***************************************************************************)

\* C1: of the N entries handled so far, the M whose projection raises add no
\* record and the others add one complete record each, in source order
\* (N - M records); the loop is never left while entries remain; and the
\* batch given to insert_many is exactly these N - M records.
C1_FaultIsolation ==
    \A p \in Procs :
        LET run == transformer[p]
            kept == Survivors(run)
        IN  InLoop(run) =>
              /\ Len(run.vulnerabilities) = Len(kept)
              /\ \A k \in 1..Len(kept) :
                   /\ BaseKeys \subseteq DOMAIN run.vulnerabilities[k]
                   /\ run.vulnerabilities[k]["id"] = Field(kept[k].dict["cve"], "id", PyNone)
              /\ run.idx <= Len(Items(run)) => run.pc = "transform"
              /\ "insert_many" \in run.ops =>
                   /\ run.idx = Len(Items(run)) + 1
                   /\ run.inserted = run.vulnerabilities
                   /\ Len(run.inserted) = Len(kept)
              /\ run.pc = "done" =>
                   /\ run.idx = Len(Items(run)) + 1
                   /\ nvd_vulnerabilities = run.before \o run.vulnerabilities

\* A run over two entries, the first malformed and the second not, has
\* stored its single record.
C1_Witness ==
    /\ transformer[1].pc = "done"
    /\ Items(transformer[1]) = <<NoCve, Good2>>
    /\ Len(transformer[1].inserted) = 1
    /\ nvd_vulnerabilities = transformer[1].inserted

\* C2: the description of every record is the value of the first English
\* entry of its source entry's descriptions, "" when there is none (or no
\* descriptions at all); the same for every weakness of the record.
C2_FirstEnglishDescription ==
    \A p \in Procs :
        LET run == transformer[p]
            kept == Survivors(run)
        IN  (InLoop(run) /\ Len(run.vulnerabilities) = Len(kept)) =>
              \A k \in 1..Len(kept) :
                  LET cve == kept[k].dict["cve"]
                      rec == run.vulnerabilities[k]
                      ws == Field(cve, "weaknesses", EmptyList).list
                  IN  /\ rec["description"] =
                           ExpectedDescription(Field(cve, "descriptions", EmptyList).list)
                      /\ Len(rec["weaknesses"]) = Len(ws)
                      /\ \A i \in 1..Len(ws) :
                           rec["weaknesses"][i].description =
                             ExpectedDescription(Field(ws[i], "description", EmptyList).list)

\* A record made of an entry whose English description follows a French one.
C2_Witness ==
    /\ Len(transformer[1].vulnerabilities) = 1
    /\ Items(transformer[1]) =
         <<Entry("CVE-1", PyList(<<Desc("fr", "c"), Desc("en", "a")>>), Absent, Absent, Absent)>>
    /\ transformer[1].vulnerabilities[1]["description"] = PyStr("a")

\* C3: a record has none of the 18 scoring keys when its entry's
\* cvssMetricV2 is empty or absent, and else has all of them, with the
\* values of element 0 and of element 0's cvssData.
C3_ScoringFromFirstMetric ==
    \A p \in Procs :
        LET run == transformer[p]
            kept == Survivors(run)
        IN  (InLoop(run) /\ Len(run.vulnerabilities) = Len(kept)) =>
              \A k \in 1..Len(kept) :
                  LET rec == run.vulnerabilities[k]
                      v2 == Field(Field(kept[k].dict["cve"], "metrics", EmptyDict),
                                  "cvssMetricV2", EmptyList)
                  IN  /\ Cardinality(ScoringKeys) = 18
                      /\ IF ~Truthy(v2)
                         THEN DOMAIN rec \cap ScoringKeys = {}
                         ELSE /\ ScoringKeys \subseteq DOMAIN rec
                              /\ \A key \in ScoringKeys :
                                   rec[key] =
                                     IF key \in CvssDataKeys
                                     THEN Field(Field(v2.list[1], "cvssData", EmptyDict),
                                                key, PyNone)
                                     ELSE Field(v2.list[1], key, PyNone)

\* A record made of an entry with two different cvssMetricV2 elements.
C3_Witness ==
    /\ Len(transformer[1].vulnerabilities) = 1
    /\ Items(transformer[1]) =
         <<Entry("CVE-1", Absent, V2(<<Metric("HIGH"), Metric("LOW")>>), Absent, Absent)>>
    /\ transformer[1].vulnerabilities[1]["baseSeverity"] = PyStr("HIGH")

(***************************************************************************)
(* Properties of whole runs, stated for Spec (serialized runs).            *)
(***************************************************************************)

\* C4: when a Transformer run has reached DONE, nvd_vulnerabilities holds
\* exactly the records of that run and nothing from before it, whatever the
\* clear step did.
C4_FullReplace ==
    \A p \in Procs :
        transformer[p].pc = "done" => nvd_vulnerabilities = transformer[p].vulnerabilities

\* A record without its collected_at stamp.
Strip(rec) == [k \in DOMAIN rec \ {"collected_at"} |-> rec[k]]
Stripped(coll) == {Strip(coll[i]) : i \in 1..Len(coll)}

\* C5: a Transformer run that follows a run which reached DONE, with nvd_raw
\* unchanged in between, leaves the same records as that run left (all
\* fields but collected_at), and no more of them.
C5_Idempotent ==
    \A p \in Procs :
        (transformer[p].pc = "done" /\ transformer[p].repeat) =>
            /\ Stripped(nvd_vulnerabilities) = Stripped(transformer[p].before)
            /\ Len(nvd_vulnerabilities) = Len(transformer[p].before)

Unsupported(data) == Truthy(data) /\ ~IsDict(data) /\ ~IsList(data)

\* C6: a Fetcher run whose payload is neither a dict nor a list ends with an
\* error logged and nvd_raw as it was before the run.
C6_UnsupportedShapeWritesNothing ==
    \A p \in Procs :
        (AtRest(fetcher[p]) /\ Unsupported(fetcher[p].data)) =>
            /\ fetcher[p].pc = "error_logged"
            /\ nvd_raw = fetcher[p].before

\* C7: a Fetcher run that failed (no data fetched, or the connection probe,
\* delete_many, insert_one or insert_many raised) leaves nvd_raw as it was
\* before the run.
C7_FailedFetcherLeavesRawUntouched ==
    \A p \in Procs :
        (fetcher[p].pc = "error_logged" /\ ~Unsupported(fetcher[p].data)) =>
            nvd_raw = fetcher[p].before

Unconfigured(run) == run.pc # "idle" /\ (run.MONGO_URL = "" \/ run.MONGO_DB = "")

\* C8: a run of either stage that lacks the connection string or the database
\* name performs no HTTP request and no storage operation, and ends in an
\* error rather than in normal completion.
C8_MissingConfigurationIsFatal ==
    \A p \in Procs :
        /\ Unconfigured(fetcher[p]) =>
             (fetcher[p].ops = {} /\ fetcher[p].pc # "done")
        /\ Unconfigured(transformer[p]) =>
             (transformer[p].ops = {} /\ transformer[p].pc \in {"load_env", "aborted"})

\* The entries of a stored document that can be projected.
ProjectableEntries(doc) ==
    IF IsDict(doc) /\ IsList(Field(doc, "vulnerabilities", PyNone))
    THEN {e \in {doc.dict["vulnerabilities"].list[i] : i \in 1..Len(doc.dict["vulnerabilities"].list)} :
            ~Raises(e)}
    ELSE {}

\* C9: after a successful Fetcher run and then a successful Transformer run,
\* nvd_vulnerabilities holds a record of this run for every well-formed entry
\* of every document of the fetched payload (one object or a list of them).
C9_EndToEndCoverage ==
    \A p \in Procs :
        (/\ fetcher[p].pc = "done"
         /\ transformer[p].pc = "done"
         /\ transformer[p].now > fetcher[p].now) =>
            \A i \in 1..Len(Docs(fetcher[p].data)) :
                \A e \in ProjectableEntries(Docs(fetcher[p].data)[i]) :
                    \E k \in 1..Len(nvd_vulnerabilities) :
                        /\ nvd_vulnerabilities[k]["id"] = Field(e.dict["cve"], "id", PyNone)
                        /\ nvd_vulnerabilities[k]["collected_at"] = transformer[p].now

(***************************************************************************)
(* Overlapping runs of one stage, stated for SpecConcurrent.               *)
(***************************************************************************)
\* out occurs in coll as a run of consecutive documents.
Occurs(out, coll) ==
    \E k \in 0..(Len(coll) - Len(out)) : SubSeq(coll, k + 1, k + Len(out)) = out

Range(seq) == {seq[i] : i \in 1..Len(seq)}

Overlapped(r1, r2) == r1.now \in r2.overlaps \/ r2.now \in r1.overlaps

=============================================================================
